---- MODULE Spec2Model ----
(***************************************************************************)
(* scripts/clear-cache.py: scan the sessions directory, load every *.json  *)
(* file, delete the `rendered` key of every entry of `messages`, write the *)
(* record back with indent=2, print the completion message.                *)
(*                                                                         *)
(* JSON values are tagged records:                                         *)
(*   [t |-> "obj", pairs |-> << <<key, value>>, ... >>]   mapping (ordered)*)
(*   [t |-> "arr", items |-> << value, ... >>]            sequence         *)
(*   [t |-> "str", s |-> "..."]                           string           *)
(*   [t |-> "num", lit |-> "..."]                         number literal   *)
(*   [t |-> "null"]                                       null             *)
(* A directory entry is a JSON text (layout + tree as written, duplicate   *)
(* keys and number spelling kept), bytes that are no JSON text, or a       *)
(* subdirectory.                                                           *)
(*                                                                         *)
(* Whether the directory can be listed is part of the state. Whether an    *)
(* examination of the path, an open(), a flush or the print succeeds is    *)
(* decided by the environment (permissions, free space, stdout) when the   *)
(* statement runs: those statements have a failing outcome next to the     *)
(* normal one.                                                             *)
(***************************************************************************)
EXTENDS Integers, Sequences, FiniteSets, TLC

VARIABLES
    dirExists,  \* the path of sessions_dir names an existing directory
    dirListable,\* the user may list that directory
    initial,    \* directory contents before the first run
    fs,         \* directory contents: name -> entry
    pc,         \* position of the script
    todo,       \* names the glob has still to yield
    cur,        \* session_file
    data,       \* the loaded record
    idx,        \* position of the `for msg` loop in data['messages']
    printed,    \* completion messages printed by this run
    run,        \* number of the current run
    orig,       \* fs when the current run started
    opened,     \* names this run has opened, for reading or for writing
    written,    \* names this run has opened for writing
    finished,   \* names whose loop body this run has completed
    abortAt     \* where an uncaught exception ended the run ("" if none)

vars == <<dirExists, dirListable, initial, fs, pc, todo, cur, data, idx, printed,
          run, orig, opened, written, finished, abortAt>>

---------------------------------------------------------------------------
\* Bounds of the model.

\* Message entries stored in the whole directory, at most.
MaxMsgs == 2

\* Runs of the script, one after the other.
MaxRuns == 2

---------------------------------------------------------------------------
\* JSON values.

Str(s) == [t |-> "str", s |-> s]
Num(lit) == [t |-> "num", lit |-> lit]
Null == [t |-> "null"]
Arr(items) == [t |-> "arr", items |-> items]
Obj(pairs) == [t |-> "obj", pairs |-> pairs]

\* No record loaded.
NoData == [t |-> "none"]

\* The index of key k in pairs ps, 0 if absent (keys are unique once loaded).
IndexOf(ps, k) ==
    IF \E i \in DOMAIN ps : ps[i][1] = k
    THEN CHOOSE i \in DOMAIN ps : ps[i][1] = k /\ \A j \in 1..(i - 1) : ps[j][1] # k
    ELSE 0

\* dict[k] = v : a new key is appended, an existing key keeps its position.
SetKey(ps, k, v) ==
    IF IndexOf(ps, k) = 0 THEN Append(ps, <<k, v>>)
    ELSE [ps EXCEPT ![IndexOf(ps, k)] = <<k, v>>]

\* float()/int() followed by repr(): the spelling json.dump gives a number.
NumRepr(lit) == CASE lit = "1e2" -> "100.0" [] OTHER -> lit

\* json.load on a JSON text's tree: duplicate keys collapse (the first
\* occurrence fixes the position, the last one the value), numbers are
\* converted.
RECURSIVE LoadValue(_)
RECURSIVE LoadPairs(_, _)
LoadPairs(ps, acc) ==
    IF ps = <<>> THEN acc
    ELSE LoadPairs(Tail(ps), SetKey(acc, Head(ps)[1], LoadValue(Head(ps)[2])))

LoadValue(v) ==
    CASE v.t = "obj" -> Obj(LoadPairs(v.pairs, <<>>))
      [] v.t = "arr" -> Arr([i \in DOMAIN v.items |-> LoadValue(v.items[i])])
      [] v.t = "num" -> Num(NumRepr(v.lit))
      [] OTHER -> v

\* The characters of a string of the model's alphabet (a string of one
\* character is its own only character).
Chars(s) ==
    CASE s = "" -> <<>>
      [] s = "hi" -> <<"h", "i">>
      [] s = "old" -> <<"o", "l", "d">>
      [] s = "user" -> <<"u", "s", "e", "r">>
      [] s = "rendered" -> <<"r", "e", "n", "d", "e", "r", "e", "d">>
      [] s = "messages" -> <<"m", "e", "s", "s", "a", "g", "e", "s">>
      [] s = "<p>hi</p>" -> <<"<", "p", ">", "h", "i", "<", "/", "p", ">">>
      [] OTHER -> <<s>>

\* k is a substring of s: of the alphabet's strings only k itself contains
\* the key k ("rendered" or "messages").
Substring(k, s) == s = k

\* `k in v` raises TypeError unless v is a mapping, a sequence or a string.
InRaises(v) == v.t \notin {"obj", "arr", "str"}

\* `k in v`: key of a mapping, element of a sequence, substring of a string.
In(k, v) ==
    CASE v.t = "obj" -> \E i \in DOMAIN v.pairs : v.pairs[i][1] = k
      [] v.t = "arr" -> \E i \in DOMAIN v.items : v.items[i] = Str(k)
      [] v.t = "str" -> Substring(k, v.s)
      [] OTHER -> FALSE

\* v[k] with a string k raises TypeError unless v is a mapping.
GetItemRaises(v) == v.t # "obj"

\* v[k] of a mapping that has the key.
GetItem(v, k) == v.pairs[IndexOf(v.pairs, k)][2]

\* iter(v) raises TypeError unless v is a mapping, a sequence or a string.
IterRaises(v) == v.t \notin {"obj", "arr", "str"}

\* What `for msg in v` yields: elements, keys, characters.
Iter(v) ==
    CASE v.t = "arr" -> v.items
      [] v.t = "obj" -> [i \in DOMAIN v.pairs |-> Str(v.pairs[i][1])]
      [] v.t = "str" -> [i \in DOMAIN Chars(v.s) |-> Str(Chars(v.s)[i])]
      [] OTHER -> <<>>

\* `del v[k]` raises TypeError unless v is a mapping.
DelRaises(v) == v.t # "obj"

\* Mutant of DropKey: the key and every pair after it are dropped.
RECURSIVE DropFromKey(_, _)
DropFromKey(ps, k) ==
    IF ps = <<>> THEN <<>>
    ELSE IF Head(ps)[1] = k THEN <<>>
    ELSE <<Head(ps)>> \o DropFromKey(Tail(ps), k)

\* The pairs ps without key k.
RECURSIVE DropKey(_, _)
DropKey(ps, k) ==
    IF ps = <<>> THEN <<>>
    ELSE IF Head(ps)[1] = k THEN DropKey(Tail(ps), k)
    ELSE <<Head(ps)>> \o DropKey(Tail(ps), k)

\* `del v[k]` on a mapping.
Del(v, k) == Obj(DropKey(v.pairs, k))

\* Mutant of SetMsg: the stripped entry is removed from the sequence and
\* appended to it.
SetMsgMovesToEnd(d, i, m) ==
    LET at == IndexOf(d.pairs, "messages")
        msgs == d.pairs[at][2]
        rest == [j \in 1..(Len(msgs.items) - 1) |->
                     IF j < i THEN msgs.items[j] ELSE msgs.items[j + 1]]
    IN  IF msgs.t = "arr"
        THEN Obj([d.pairs EXCEPT ![at] = <<"messages", Arr(Append(rest, m))>>])
        ELSE d

\* data with data['messages'][i] replaced by m (msg is a reference into data).
SetMsg(d, i, m) ==
    LET at == IndexOf(d.pairs, "messages")
        msgs == d.pairs[at][2]
    IN  IF msgs.t = "arr"
        THEN Obj([d.pairs EXCEPT ![at] = <<"messages", Arr([msgs.items EXCEPT ![i] = m])>>])
        ELSE d

---------------------------------------------------------------------------
\* Directory entries.

Text(layout, tree) == [kind |-> "text", layout |-> layout, tree |-> tree]
Bytes(what) == [kind |-> "bytes", what |-> what]
Dir == [kind |-> "dir"]

\* open(path, 'r') raises (IsADirectoryError) on a directory.
OpenRaises(e) == e.kind = "dir"

\* json.load raises JSONDecodeError unless the bytes are a JSON text.
LoadRaises(e) == e.kind # "text"

\* json.load(f)
Load(e) == LoadValue(e.tree)

\* json.dump(data, f, indent=2): the text of the record, 2-space indented.
Dump(d) == Text("indent2", d)

\* A file name: stem and extension.
Name(stem, ext) == [stem |-> stem, ext |-> ext]

\* Mutant of Matches: glob("*") yields every name.
AllMatch(n) == TRUE

\* glob("*.json"): the name ends in ".json".
Matches(n) == n.ext = ".json"

---------------------------------------------------------------------------
\* The directories a run starts from.

JsonNames == {Name("a", ".json"), Name("b", ".json")}
OtherNames == {Name("notes", ".txt"), Name("sub", "")}

Hi == Str("hi")
Html == Str("<p>hi</p>")

\* Entries of `messages`: without and with the cached field, with the cached
\* field written twice, and entries that are no mapping.
MsgEntries ==
    { Obj(<< <<"text", Hi>> >>),
      Obj(<< <<"text", Hi>>, <<"rendered", Html>> >>),
      Obj(<< <<"rendered", Str("old")>>, <<"role", Str("user")>>, <<"rendered", Html>> >>),
      Str("hi"),
      Str("rendered"),
      Null }

SeqsUpTo(S, n) == UNION {[1..k -> S] : k \in 0..n}

\* Values of `messages` that are no sequence.
NonSeqValues == {Obj(<< <<"text", Hi>> >>), Obj(<< <<"rendered", Html>> >>), Hi, Null}

\* Trees of the JSON texts: records whose `messages` is a sequence (after
\* another field), the record of one cached entry alone, records whose
\* `messages` is no sequence, records without `messages`, and top-level
\* values that are no mapping.
Trees ==
    {Obj(<< <<"other", Num("1e2")>>, <<"messages", Arr(items)>> >>) :
        items \in SeqsUpTo(MsgEntries, MaxMsgs)}
        \cup {Obj(<< <<"messages", Arr(<<Obj(<< <<"text", Hi>>, <<"rendered", Html>> >>)>>)>> >>)}
        \cup {Obj(<< <<"messages", m>> >>) : m \in NonSeqValues}
        \cup {Obj(<< <<"other", Num("1")>> >>), Obj(<< <<"other", Num("1e2")>> >>)}
        \cup {Arr(<<Str("messages")>>), Arr(<<>>), Str("messages"), Hi, Null}

\* What a name matching *.json can be.
JsonEntries ==
    {Text("compact", tr) : tr \in Trees} \cup {Bytes("garbage"), Bytes("empty"), Dir}

\* What the other names are: a file with a cached field, a subdirectory.
OtherEntry(n) ==
    IF n.ext = ".txt"
    THEN Text("compact", Obj(<< <<"messages", Arr(<<Obj(<< <<"rendered", Html>> >>)>>)>> >>))
    ELSE Dir

\* Entries of `messages` a directory entry stores.
MsgCount(e) ==
    IF e.kind = "text" /\ e.tree.t = "obj" /\ In("messages", e.tree)
       /\ GetItem(LoadValue(e.tree), "messages").t = "arr"
    THEN Len(GetItem(LoadValue(e.tree), "messages").items)
    ELSE 0

RECURSIVE Total(_, _)
Total(g, S) ==
    IF S = {} THEN 0
    ELSE LET n == CHOOSE x \in S : TRUE IN MsgCount(g[n]) + Total(g, S \ {n})

\* The empty directory.
NoFiles == [n \in {} |-> Dir]

\* The empty directory, and the directories that hold the two other names
\* and any of the *.json names.
Directories ==
    {NoFiles} \cup
    { [n \in DOMAIN g \cup OtherNames |-> IF n \in DOMAIN g THEN g[n] ELSE OtherEntry(n)] :
        g \in {h \in UNION {[S -> JsonEntries] : S \in SUBSET JsonNames} :
                  Total(h, DOMAIN h) <= MaxMsgs} }

\* The directories taken for the case that the user may not list them: at
\* most one *.json name.
Unlistable ==
    {d \in Directories : Cardinality(DOMAIN d \cap JsonNames) <= 1}

NoName == Name("", "")

Init ==
    /\ dirExists \in BOOLEAN
    /\ dirListable \in (IF dirExists THEN BOOLEAN ELSE {FALSE})
    /\ fs \in (IF ~dirExists THEN {NoFiles}
               ELSE IF dirListable THEN Directories
               ELSE Unlistable)
    /\ initial = fs
    /\ pc = "glob"
    /\ todo = {}
    /\ cur = NoName
    /\ data = NoData
    /\ idx = 0
    /\ printed = 0
    /\ run = 1
    /\ orig = fs
    /\ opened = {}
    /\ written = {}
    /\ finished = {}
    /\ abortAt = ""

---------------------------------------------------------------------------
\* The script, statement by statement.

\* An uncaught exception: the traceback is printed and the process exits.
Abort(where) ==
    /\ pc' = "aborted"
    /\ abortAt' = where

\* Line 11, first iteration: sessions_dir.glob("*.json") scans the directory;
\* a path that is no directory yields nothing, and neither does a directory
\* the user may not list (pathlib swallows the PermissionError of scandir).
\* It raises when the path cannot be examined, a directory above it not being
\* searchable (is_dir re-raises the PermissionError of stat).
Glob ==
    /\ pc = "glob"
    /\ \/ /\ todo' = IF dirExists /\ dirListable
                     THEN {n \in DOMAIN fs : Matches(n)}
                     ELSE {}
          /\ pc' = "next"
          /\ UNCHANGED abortAt
       \/ /\ Abort("glob")
          /\ UNCHANGED todo
    /\ UNCHANGED <<dirExists, dirListable, initial, fs, cur, data, idx, printed,
                   run, orig, opened, written, finished>>

\* Line 11: the next session_file, in the order the directory gives; the loop
\* ends when the glob is exhausted.
NextFile ==
    /\ pc = "next"
    /\ IF todo = {}
       THEN /\ pc' = "print"
            /\ UNCHANGED <<todo, cur>>
       ELSE \E n \in todo :
            /\ cur' = n
            /\ todo' = todo \ {n}
            /\ pc' = "open_r"
    /\ UNCHANGED <<dirExists, dirListable, initial, fs, data, idx, printed, run, orig,
                   opened, written, finished, abortAt>>

\* Line 12: open(session_file, 'r'). It raises on a directory
\* (IsADirectoryError), and when the user may not read the file or search the
\* directory (PermissionError).
OpenRead ==
    /\ pc = "open_r"
    /\ \/ /\ ~OpenRaises(fs[cur])
          /\ opened' = opened \cup {cur}
          /\ pc' = "load"
          /\ UNCHANGED abortAt
       \/ /\ Abort("open")
          /\ UNCHANGED opened
    /\ UNCHANGED <<dirExists, dirListable, initial, fs, todo, cur, data, idx,
                   printed, run, orig, written, finished>>

\* Line 13: json.load(f), and the file is closed.
LoadFile ==
    /\ pc = "load"
    /\ IF LoadRaises(fs[cur])
       THEN /\ Abort("load")
            /\ UNCHANGED data
       ELSE /\ data' = Load(fs[cur])
            /\ pc' = "test"
            /\ UNCHANGED abortAt
    /\ UNCHANGED <<dirExists, dirListable, initial, fs, todo, cur, idx, printed,
                   run, orig, opened, written, finished>>

\* Mutant of TestMessages: the file is opened for writing before the strip
\* loop instead of after it.
TestMessagesOpensFirst ==
    /\ pc = "test"
    /\ IF InRaises(data)
       THEN /\ Abort("test")
            /\ UNCHANGED <<fs, idx, written, finished>>
       ELSE IF ~In("messages", data)
       THEN /\ finished' = finished \cup {cur}
            /\ pc' = "next"
            /\ UNCHANGED <<fs, idx, written, abortAt>>
       ELSE IF GetItemRaises(data) \/ IterRaises(GetItem(data, "messages"))
       THEN /\ Abort("strip")
            /\ UNCHANGED <<fs, idx, written, finished>>
       ELSE /\ fs' = [fs EXCEPT ![cur] = Bytes("empty")]
            /\ written' = written \cup {cur}
            /\ idx' = 1
            /\ pc' = "strip"
            /\ UNCHANGED <<finished, abortAt>>
    /\ UNCHANGED <<dirExists, dirListable, initial, todo, cur, data, printed, run, orig,
                   opened>>

\* Lines 14-15: `'messages' in data`, then iter(data['messages']). A record
\* without `messages` ends the loop body: nothing is written.
TestMessages ==
    /\ pc = "test"
    /\ IF InRaises(data)
       THEN /\ Abort("test")
            /\ UNCHANGED <<idx, finished>>
       ELSE IF ~In("messages", data)
       THEN /\ finished' = finished \cup {cur}
            /\ pc' = "next"
            /\ UNCHANGED <<idx, abortAt>>
       ELSE IF GetItemRaises(data) \/ IterRaises(GetItem(data, "messages"))
       THEN /\ Abort("strip")
            /\ UNCHANGED <<idx, finished>>
       ELSE /\ idx' = 1
            /\ pc' = "strip"
            /\ UNCHANGED <<finished, abortAt>>
    /\ UNCHANGED <<dirExists, dirListable, initial, fs, todo, cur, data, printed, run,
                   orig, opened, written>>

\* Mutant of StripStep: a deletion makes the loop skip the next entry.
StripStepSkipsNext ==
    /\ pc = "strip"
    /\ LET msgs == Iter(GetItem(data, "messages")) IN
       IF idx > Len(msgs)
       THEN /\ pc' = "open_w"
            /\ UNCHANGED <<data, idx, abortAt>>
       ELSE LET msg == msgs[idx] IN
            IF InRaises(msg)
            THEN /\ Abort("strip")
                 /\ UNCHANGED <<data, idx>>
            ELSE IF ~In("rendered", msg)
            THEN /\ idx' = idx + 1
                 /\ UNCHANGED <<pc, data, abortAt>>
            ELSE IF DelRaises(msg)
            THEN /\ Abort("strip")
                 /\ UNCHANGED <<data, idx>>
            ELSE /\ data' = SetMsg(data, idx, Del(msg, "rendered"))
                 /\ idx' = idx + 2
                 /\ UNCHANGED <<pc, abortAt>>
    /\ UNCHANGED <<dirExists, dirListable, initial, fs, todo, cur, printed, run, orig,
                   opened, written, finished>>

\* Lines 15-17: one iteration of `for msg in data['messages']`.
StripStep ==
    /\ pc = "strip"
    /\ LET msgs == Iter(GetItem(data, "messages")) IN
       IF idx > Len(msgs)
       THEN /\ pc' = "open_w"
            /\ UNCHANGED <<data, idx, abortAt>>
       ELSE LET msg == msgs[idx] IN
            IF InRaises(msg)
            THEN /\ Abort("strip")
                 /\ UNCHANGED <<data, idx>>
            ELSE IF ~In("rendered", msg)
            THEN /\ idx' = idx + 1
                 /\ UNCHANGED <<pc, data, abortAt>>
            ELSE IF DelRaises(msg)
            THEN /\ Abort("strip")
                 /\ UNCHANGED <<data, idx>>
            ELSE /\ data' = SetMsg(data, idx, Del(msg, "rendered"))
                 /\ idx' = idx + 1
                 /\ UNCHANGED <<pc, abortAt>>
    /\ UNCHANGED <<dirExists, dirListable, initial, fs, todo, cur, printed, run, orig,
                   opened, written, finished>>

\* Line 18: open(session_file, 'w') creates the file or truncates it. It
\* raises when the user may not write the file (PermissionError).
OpenWrite ==
    /\ pc = "open_w"
    /\ \/ /\ fs' = [n \in DOMAIN fs \cup {cur} |->
                       IF n = cur THEN Bytes("empty") ELSE fs[n]]
          /\ opened' = opened \cup {cur}
          /\ written' = written \cup {cur}
          /\ pc' = "dump"
          /\ UNCHANGED abortAt
       \/ /\ Abort("open_w")
          /\ UNCHANGED <<fs, opened, written>>
    /\ UNCHANGED <<dirExists, dirListable, initial, todo, cur, data, idx,
                   printed, run, orig, finished>>

\* Mutant of DumpChunks: the file is not closed before the next one is
\* started, so the buffered rest of the text is not on the disk.
DumpNoClose ==
    /\ pc = "dump"
    /\ \E e \in {Bytes("empty"), Bytes("partial")} :
           fs' = [fs EXCEPT ![cur] = e]
    /\ finished' = finished \cup {cur}
    /\ pc' = "next"
    /\ UNCHANGED <<dirExists, dirListable, initial, todo, cur, data, idx,
                   printed, run, orig, opened, written, abortAt>>

\* Line 19: json.dump writes the text in chunks to the buffered file. When it
\* returns the disk holds nothing of the text (a text shorter than the
\* buffer), a part of it, or all of it (a text that fills the buffer
\* exactly). A write that the device refuses (no space, quota) raises
\* OSError and leaves what was written before.
DumpChunks ==
    /\ pc = "dump"
    /\ \/ /\ \E e \in {Bytes("empty"), Bytes("partial"), Dump(data)} :
                 fs' = [fs EXCEPT ![cur] = e]
          /\ pc' = "close"
          /\ UNCHANGED abortAt
       \/ /\ \E e \in {Bytes("empty"), Bytes("partial")} :
                 fs' = [fs EXCEPT ![cur] = e]
          /\ Abort("write")
    /\ UNCHANGED <<dirExists, dirListable, initial, todo, cur, data, idx,
                   printed, run, orig, opened, written, finished>>

\* Line 19, end of the `with`: the buffer is flushed and the file holds the
\* whole text. A flush that the device refuses raises OSError and leaves the
\* file with a part of the text, or with what it held.
CloseWrite ==
    /\ pc = "close"
    /\ \/ /\ fs' = [fs EXCEPT ![cur] = Dump(data)]
          /\ finished' = finished \cup {cur}
          /\ pc' = "next"
          /\ UNCHANGED abortAt
       \/ /\ fs[cur] # Dump(data)
          /\ \E e \in {fs[cur], Bytes("partial")} :
                 fs' = [fs EXCEPT ![cur] = e]
          /\ Abort("write")
          /\ UNCHANGED finished
    /\ UNCHANGED <<dirExists, dirListable, initial, todo, cur, data, idx,
                   printed, run, orig, opened, written>>

\* Line 20: print("\u2705 Cache cleared"). It raises when stdout cannot
\* encode U+2705 (UnicodeEncodeError) or cannot be written (OSError): nothing
\* is printed. When the script was started with stdout closed, sys.stdout is
\* None and print does nothing: the run completes without the message.
PrintDone ==
    /\ pc = "print"
    /\ \/ /\ printed' = printed + 1
          /\ pc' = "done"
          /\ UNCHANGED abortAt
       \/ /\ pc' = "done"
          /\ UNCHANGED <<printed, abortAt>>
       \/ /\ Abort("print")
          /\ UNCHANGED printed
    /\ UNCHANGED <<dirExists, dirListable, initial, fs, todo, cur, data, idx,
                   run, orig, opened, written, finished>>

\* A signal ends the process between two statements. SIGKILL and SIGTERM
\* leave the disk as it is. SIGINT raises KeyboardInterrupt: inside the
\* `with` of line 18, after json.dump has returned, the unwinding closes the
\* file and the buffered text is flushed.
Interrupt ==
    /\ pc \notin {"done", "aborted", "killed"}
    /\ pc' = "killed"
    /\ \/ UNCHANGED fs
       \/ /\ pc = "close"
          /\ fs' = [fs EXCEPT ![cur] = Dump(data)]
    /\ UNCHANGED <<dirExists, dirListable, initial, todo, cur, data, idx,
                   printed, run, orig, opened, written, finished, abortAt>>

\* The script is started again after a run that completed.
Rerun ==
    /\ pc = "done"
    /\ run < MaxRuns
    /\ run' = run + 1
    /\ pc' = "glob"
    /\ todo' = {}
    /\ cur' = NoName
    /\ data' = NoData
    /\ idx' = 0
    /\ printed' = 0
    /\ orig' = fs
    /\ opened' = {}
    /\ written' = {}
    /\ finished' = {}
    /\ abortAt' = ""
    /\ UNCHANGED <<dirExists, dirListable, initial, fs>>

Next ==
    \/ Glob
    \/ NextFile
    \/ OpenRead
    \/ LoadFile
    \/ TestMessages
    \/ StripStep
    \/ OpenWrite
    \/ DumpChunks
    \/ CloseWrite
    \/ PrintDone
    \/ Interrupt
    \/ Rerun

Spec == Init /\ [][Next]_vars

---------------------------------------------------------------------------
\* Vocabulary of the properties.

\* v is a mapping with a field named k.
HasField(v, k) == v.t = "obj" /\ \E i \in DOMAIN v.pairs : v.pairs[i][1] = k

\* The names of the fields of a mapping.
Fields(v) == {v.pairs[i][1] : i \in DOMAIN v.pairs}

\* The value of field k of a mapping whose field names are distinct.
Field(v, k) == (CHOOSE p \in {v.pairs[i] : i \in DOMAIN v.pairs} : p[1] = k)[2]

\* The values a mapping gives field k, as written (a text may repeat a key).
Values(v, k) == {v.pairs[i][2] : i \in {j \in DOMAIN v.pairs : v.pairs[j][1] = k}}

\* The entries of a `messages` value: the elements of a sequence.
Entries(m) == IF m.t = "arr" THEN m.items ELSE <<>>

\* An entry minus its `rendered` field.
StrippedEntry(e) ==
    IF e.t = "obj" THEN Obj(SelectSeq(e.pairs, LAMBDA p : p[1] # "rendered")) ELSE e

\* A record with every entry of its `messages` sequence stripped.
StrippedRecord(d) ==
    IF HasField(d, "messages")
    THEN Obj([i \in DOMAIN d.pairs |->
                IF d.pairs[i][1] = "messages" /\ d.pairs[i][2].t = "arr"
                THEN <<"messages",
                       Arr([j \in DOMAIN d.pairs[i][2].items |->
                              StrippedEntry(d.pairs[i][2].items[j])])>>
                ELSE d.pairs[i]])
    ELSE d

\* A name of the form *.json.
IsJsonName(n) == n.ext = ".json"

\* The matching names of the directory.
Matching == {n \in DOMAIN fs : IsJsonName(n)}

\* n was a JSON text when the run started, and its record has `messages`.
HadMessages(n) == orig[n].kind = "text" /\ HasField(Load(orig[n]), "messages")

\* What a file holds once its processing has finished: the indented text of
\* the stripped record if the record has `messages`, else what it held.
Processed(e) ==
    IF e.kind = "text" /\ HasField(Load(e), "messages")
    THEN Dump(StrippedRecord(Load(e)))
    ELSE e

\* The script holds a loaded record whose `messages` it is stripping or has
\* stripped.
Stripping == pc \in {"strip", "open_w", "dump", "close"}

---------------------------------------------------------------------------
\* C1: after a run that completes, no entry of `messages` in the persisted
\* contents of a matching file whose record had `messages` has a `rendered`
\* field.
C1_NoRenderedPersisted ==
    pc = "done" =>
        \A n \in Matching :
            HadMessages(n) =>
                /\ fs[n].kind = "text"
                /\ fs[n].tree.t = "obj"
                /\ \A m \in Values(fs[n].tree, "messages") :
                       \A i \in DOMAIN Entries(m) :
                           ~HasField(Entries(m)[i], "rendered")

\* C3: processing a record removes `rendered` keys from message entries and
\* changes nothing else: every other field of an entry keeps its value, an
\* entry without `rendered` is unchanged, every top-level field other than
\* `messages` keeps its value.
FrameKept(before, after) ==
    /\ after.t = "obj"
    /\ Fields(after) = Fields(before)
    /\ \A k \in Fields(before) \ {"messages"} : Field(after, k) = Field(before, k)
    /\ LET m0 == Field(before, "messages")
           m1 == Field(after, "messages")
       IN  IF m0.t = "arr"
           THEN /\ m1.t = "arr"
                /\ DOMAIN m1.items = DOMAIN m0.items
                /\ \A i \in DOMAIN m0.items :
                       LET e0 == m0.items[i]
                           e1 == m1.items[i]
                       IN  IF HasField(e0, "rendered")
                           THEN /\ e1.t = "obj"
                                /\ Fields(e1) \ {"rendered"} = Fields(e0) \ {"rendered"}
                                /\ \A k \in Fields(e1) \ {"rendered"} :
                                       Field(e1, k) = Field(e0, k)
                           ELSE e1 = e0
           ELSE m1 = m0

C3_OnlyRenderedRemoved ==
    /\ Stripping => FrameKept(Load(orig[cur]), data)
    /\ \A n \in finished :
           /\ fs[n].kind = "text"
           /\ IF HadMessages(n)
              THEN FrameKept(Load(orig[n]), Load(fs[n]))
              ELSE Load(fs[n]) = Load(orig[n])

\* A persisted record that lost a `rendered` key and kept another top-level
\* field and another field of the entry.
C3_Witness ==
    \E n \in finished :
        /\ HadMessages(n)
        /\ HasField(Load(orig[n]), "other")
        /\ Load(fs[n]) # Load(orig[n])
        /\ \E i \in DOMAIN Entries(Field(Load(orig[n]), "messages")) :
               LET e0 == Entries(Field(Load(orig[n]), "messages"))[i]
               IN  HasField(e0, "rendered") /\ Fields(e0) # {"rendered"}

\* C4: the `messages` sequence of a processed record has the length it had,
\* and its i-th entry is the i-th original entry minus its `rendered` field.
SameOrder(before, after) ==
    /\ HasField(after, "messages")
    /\ Field(after, "messages").t = "arr"
    /\ Len(Field(after, "messages").items) = Len(Field(before, "messages").items)
    /\ \A i \in DOMAIN Field(before, "messages").items :
           Field(after, "messages").items[i]
               = StrippedEntry(Field(before, "messages").items[i])

C4_OrderPreserved ==
    \A n \in finished :
        (HadMessages(n) /\ Field(Load(orig[n]), "messages").t = "arr") =>
            /\ fs[n].kind = "text"
            /\ SameOrder(Load(orig[n]), Load(fs[n]))

\* A persisted sequence of two different entries, the first one stripped.
C4_Witness ==
    \E n \in finished :
        /\ HadMessages(n)
        /\ Field(Load(orig[n]), "messages").t = "arr"
        /\ LET m0 == Field(Load(orig[n]), "messages").items
           IN  /\ Len(m0) = 2
               /\ HasField(m0[1], "rendered")
               /\ StrippedEntry(m0[1]) # StrippedEntry(m0[2])

\* C2: a completed run writes every matching file back, a record without
\* `messages` included, re-serialized with the same fields and values.
C2_EveryFilePersisted ==
    pc = "done" =>
        \A n \in Matching :
            (orig[n].kind = "text" /\ Load(orig[n]).t = "obj") =>
                /\ n \in written
                /\ ~HasField(Load(orig[n]), "messages") => fs[n] = Dump(Load(orig[n]))

\* C5: a run that follows a completed run and completes leaves every file as
\* the completed run left it.
C5_Idempotent == (run > 1 /\ pc = "done") => fs = orig

\* A second completed run that rewrote a file the first run had stripped.
C5_Witness ==
    /\ run = 2
    /\ pc = "done"
    /\ \E n \in written :
           /\ initial[n].kind = "text"
           /\ Load(initial[n]) # Load(fs[n])
           /\ \E m \in Values(initial[n].tree, "messages") :
                  Len(Entries(m)) = 2

\* C6: the completion message is printed once by a run that completes and by
\* no other, after every matching file has been processed; on an empty
\* directory the run completes without opening a file.
C6_CompletionOnce ==
    /\ printed \in {0, 1}
    /\ (printed = 1) <=> (pc = "done")
    /\ printed = 1 => (todo = {} /\ (dirExists => Matching \subseteq finished))
    /\ (pc = "done" /\ DOMAIN orig = {}) => (opened = {} /\ fs = orig)

\* C7: no run, complete or interrupted, creates or deletes a name, and the
\* names that do not match *.json and the subdirectories are never opened and
\* never modified.
C7_NoCreateNoDelete ==
    /\ DOMAIN fs = DOMAIN orig
    /\ DOMAIN fs = DOMAIN initial
    /\ \A n \in DOMAIN fs :
           (~IsJsonName(n) \/ initial[n].kind = "dir") =>
               (n \notin opened /\ fs[n] = initial[n])

\* A run interrupted while it was writing, in a directory that holds a name
\* that does not match and a subdirectory.
C7_Witness ==
    /\ pc = "killed"
    /\ cur \in written
    /\ fs[cur].kind = "bytes"
    /\ \E n \in DOMAIN fs : ~IsJsonName(n) /\ fs[n].kind = "text"
    /\ \E n \in DOMAIN fs : fs[n].kind = "dir"

\* C8 as claimed: the completion message is printed only if the directory
\* exists, every matching file is valid structured data, every `messages` is
\* a sequence and every entry a mapping.
C8_UnhandledAreFatal ==
    printed > 0 =>
        /\ dirExists
        /\ \A n \in Matching :
               /\ orig[n].kind = "text"
               /\ HadMessages(n) =>
                      /\ Field(Load(orig[n]), "messages").t = "arr"
                      /\ \A i \in DOMAIN Entries(Field(Load(orig[n]), "messages")) :
                             Entries(Field(Load(orig[n]), "messages"))[i].t = "obj"

\* C9: at every point of a run the processed files are a prefix of the
\* batch: a finished file holds its processed contents, a file not yet
\* reached holds its original contents and was never opened, and only
\* session_file can hold anything else.
C9_PrefixProcessed ==
    /\ \A n \in Matching :
           /\ n \in finished => fs[n] = Processed(orig[n])
           /\ (n \notin finished /\ n # cur) => (fs[n] = orig[n] /\ n \notin opened)
    /\ {n \in DOMAIN fs : fs[n] \notin {orig[n], Processed(orig[n])}} \subseteq {cur}
    /\ opened \subseteq finished \cup {cur}
    /\ finished \cap todo = {}
    /\ cur \notin todo

\* A run interrupted in the middle of writing its second file, the first one
\* rewritten.
C9_Witness ==
    /\ pc = "killed"
    /\ \E n \in finished : n # cur /\ fs[n] # orig[n]
    /\ cur \notin finished
    /\ fs[cur] = Bytes("partial")

\* C10: a run that aborts while loading a file or stripping its entries has
\* not opened that file for writing: it holds its original contents.
C10_AbortLeavesFile ==
    (pc = "aborted" /\ abortAt \in {"load", "test", "strip"}) =>
        (cur \notin written /\ fs[cur] = orig[cur])

\* A run that aborted in the strip loop after it had deleted a `rendered` key
\* in memory.
C10_Witness ==
    /\ pc = "aborted"
    /\ abortAt = "strip"
    /\ data # Load(orig[cur])

====
